---- MODULE Spec2Model ----
(***************************************************************************)
(* Printer control panel (ControlPage and its control components).         *)
(*                                                                         *)
(*  - ControlPage: the per-printer status map replaced by every poll, and  *)
(*    the selected printer.                                                *)
(*  - MovementControls and TemperaturePanel: the confirmation handshake of *)
(*    the dangerous commands, with the requests and responses in flight.   *)
(*  - SpeedControl, FanControls, LightToggle, AMSPanel, CameraFeed: the    *)
(*    disabled-state of every command-issuing control.                     *)
(*                                                                         *)
(* The command executor (the REST backend) and the ConfirmModal component  *)
(* are not among the sources; they are modelled from the specification,    *)
(* section 4.2, and from PLAN_PRINTER_CONTROL.md 2.2 / 6.1.                *)
(*                                                                         *)
(* Spec      the handshake: both printers, MovementControls and            *)
(*           TemperaturePanel, executor, polls, printer selection.         *)
(* SpecPerm  the control surface: every control of every panel on the      *)
(*           selected printer, under every reported operational state.     *)
(* SpecModal the PrintModal: printer and plate selection, manual slot       *)
(*           overrides, schedule options and submit, in the three modes    *)
(*           and in browsers of several time zones.                        *)
(* SpecCamera       the camera feed: start/stop, refresh and its restart   *)
(*                  timer, load and error of the stream image.             *)
(* SpecIso          light and fan commands while the selected printer      *)
(*                  changes.                                               *)
(* SpecAms          tray selection and load/unload while the reported AMS  *)
(*                  content and the selected printer change.               *)
(* SpecTemperature  the +/- buttons under reported targets below, inside   *)
(*                  and above the clamping ranges.                         *)
(***************************************************************************)
EXTENDS Integers, FiniteSets, Sequences, TLC

VARIABLES
    statuses,           \* ControlPage: data of the 'printerStatuses' query
    fetched,            \* history: outcome of getPrinterStatus per printer, last poll
    selectedPrinterId,  \* ControlPage: useState<number | null>(null)
    mvModal,            \* MovementControls: confirmModal
    moveDistance,       \* MovementControls: useState(10)
    tpModal,            \* TemperaturePanel: confirmModal
    selectedTray,       \* AMSPanel: useState<number | null>(null)
    isOn,               \* LightToggle: useState(true)
    fanValues,          \* FanControls: useState({part: 100, aux: 0, chamber: 0})
    streamEnabled,      \* CameraFeed: useState(false)
    cur,                \* per useMutation observer: slot of its pending current mutation
    error,              \* per useMutation observer: mutation.error is set
    net,                \* requests and responses in flight between UI and executor
    tokens,             \* executor: the challenges issued so far, in order of issue
    sentTok,            \* history: how often each token was put into a request
    cancelledTok,       \* history: tokens whose prompt the user cancelled
    requests,           \* history: number of requests sent so far
    Print_mode,         \* PrintModal: prop mode ("closed": the modal is not mounted)
    queueItem,          \* PrintModal: prop queueItem
    tzOffset,           \* browser: local time minus UTC, in minutes
    printers,           \* PrintModal: data of the 'printers' query
    platesData,         \* PrintModal: data of the 'archive-plates' query
    Print_selectedPrinter,  \* PrintModal: selectedPrinter
    Print_selectedPlate,    \* PrintModal: selectedPlate
    scheduleOptions,    \* PrintModal: scheduleOptions
    manualMappings,     \* PrintModal: slot -> globalTrayId (NoTray: no override)
    initialPrinterId,   \* PrintModal: useState, never set again
    initialPlateId,     \* PrintModal: useState, never set again
    submitted,          \* PrintModal: the data handed to the mutation by handleSubmit
    enteredFor,         \* history: the selection under which each override was entered
    scheduleTouched,    \* history: the user changed the schedule options
    Camera_isLoading,   \* CameraFeed: isLoading
    Camera_error,       \* CameraFeed: error is not null
    timers,             \* CameraFeed: restart timers of handleRefresh not yet fired
    imgState,           \* browser: the stream <img>: "none" (not mounted), "loading", "loaded"
    assumed             \* history: per printer, the light and fan values that the
                        \* successful light and fan commands sent to it have set

cameraVars == <<Camera_isLoading, Camera_error, timers, imgState>>

printModalVars == <<Print_mode, queueItem, tzOffset, printers, platesData, Print_selectedPrinter,
                    Print_selectedPlate, scheduleOptions, manualMappings,
                    initialPrinterId, initialPlateId, submitted, enteredFor,
                    scheduleTouched>>

vars == <<statuses, fetched, selectedPrinterId, mvModal, moveDistance, tpModal, selectedTray,
          isOn, fanValues, streamEnabled, cur, error, net, tokens, sentTok,
          cancelledTok, requests, printModalVars, cameraVars, assumed>>

controlVars == <<statuses, fetched, selectedPrinterId, mvModal, moveDistance, tpModal,
                 selectedTray, isOn, fanValues, streamEnabled, cur, error, net, tokens,
                 sentTok, cancelledTok, requests, cameraVars, assumed>>

pageVars == <<statuses, fetched, selectedPrinterId>>
handshakeVars == <<mvModal, moveDistance, tpModal>>
localVars == <<selectedTray, isOn, fanValues, streamEnabled>>
panelVars == <<handshakeVars, localVars>>
mutateVars == <<cur, error, net, sentTok, requests>>

(* ------------------------------ bounds -------------------------------- *)
\* requests sent in one behaviour; it also bounds the requests in flight and
\* the challenges issued
MaxRequests == 2

\* restart timers of the camera feed pending at one time
MaxTimers == 2

(* ----------------------------- constants ------------------------------ *)
NoToken == 0
NoSlot == 0
NoPrinter == 0
NoTray == -1
BedWarnAbove == 100
NozzleWarnAbove == 260
InitialMoveDistance == 10

Printers == {1, 2}
Slots == 1..MaxRequests
TokenIds == 1..MaxRequests

KnownStates == {"IDLE", "RUNNING", "PAUSE", "FINISH"}
States == KnownStates \cup {"FAILED"}

MovementObservers == {"home", "move", "disable"}
TemperatureObservers == {"bed", "nozzle"}
FanObservers == {"part", "aux", "chamber"}
Observers == MovementObservers \cup TemperatureObservers \cup FanObservers
             \cup {"speed", "light", "load", "unload"}

nozzle_count(p) == IF p = 1 THEN 1 ELSE 2

(* --------------------------- status snapshots ------------------------- *)
NoStatus == [absent |-> TRUE]

\* api.getPrinterStatus threw
FetchFailed == [failed |-> TRUE]

NoAms == <<>>
OneAms == <<[id |-> 0, tray |-> <<[id |-> 0, tray_type |-> "PLA"],
                                  [id |-> 1, tray_type |-> "NONE"]>>]>>

\* the same unit after the spool of tray 0 was taken out and one was put in tray 1
SwappedAms == <<[id |-> 0, tray |-> <<[id |-> 0, tray_type |-> "NONE"],
                                      [id |-> 1, tray_type |-> "PETG"]>>]>>

Snapshots(S, B, N, A) ==
    [connected : BOOLEAN, state : S, bed_target : B, nozzle_target : N,
     nozzle_2_target : N, ams : A]

HandshakeSnapshots ==
    Snapshots({"PAUSE"}, {BedWarnAbove}, {NozzleWarnAbove}, {NoAms})

PermissionSnapshots ==
    Snapshots(States, {BedWarnAbove}, {NozzleWarnAbove}, {OneAms})

AmsSnapshots ==
    Snapshots({"IDLE"}, {BedWarnAbove}, {NozzleWarnAbove}, {OneAms, SwappedAms})

\* reported targets below, inside and above the ranges that adjustTemp clamps to
BedTargets == {0, 118, 125}
NozzleTargets == {2, 297}

TemperatureSnapshots ==
    {s \in Snapshots({"PAUSE"}, BedTargets, NozzleTargets, {NoAms}) : s.connected}

isConnected(status) == IF status = NoStatus THEN FALSE ELSE status.connected

stateOf(status) == IF status = NoStatus THEN "undefined" ELSE status.state

selectedStatus ==
    IF selectedPrinterId = NoPrinter THEN NoStatus ELSE statuses[selectedPrinterId]

selectedPrinter == selectedPrinterId \in Printers

(* ------------------------------ messages ------------------------------ *)
NoMsg == [empty |-> TRUE]
NoModal == [closed |-> TRUE]

\* a request built by a mutationFn: it closes over the printerId prop of the
\* render in which mutate is called
Request(obs, axis, value, nozzle, token, origin) ==
    [obs |-> obs, printer |-> selectedPrinterId, axis |-> axis, value |-> value,
     nozzle |-> nozzle, token |-> token, phase |-> "req", result |-> "none",
     rtoken |-> NoToken, origin |-> origin,
     connAtSend |-> isConnected(selectedStatus),
     dangerous |-> FALSE, executed |-> FALSE]

FreeSlots(n) == {i \in Slots : n[i] = NoMsg}

LowestFree(n) == CHOOSE i \in FreeSlots(n) : \A j \in FreeSlots(n) : i <= j

Put(st, m) ==
    LET i == LowestFree(st.net)
    IN  [net |-> [st.net EXCEPT ![i] = m], cur |-> [st.cur EXCEPT ![m.obs] = i]]

RECURSIVE PutAll(_, _)
PutAll(st, ms) ==
    IF ms = <<>> THEN st ELSE PutAll(Put(st, Head(ms)), Tail(ms))

Carrying(ms, t) == Cardinality({k \in 1..Len(ms) : ms[k].token = t})

\* useMutation(...).mutate, once per element of ms, in order
mutate(ms) ==
    /\ requests + Len(ms) <= MaxRequests
    /\ requests' = requests + Len(ms)
    /\ LET st == PutAll([net |-> net, cur |-> cur], ms)
       IN  net' = st.net /\ cur' = st.cur
    /\ sentTok' = [t \in TokenIds |-> sentTok[t] + Carrying(ms, t)]
    /\ error' = [o \in Observers |->
                     IF \E k \in 1..Len(ms) : ms[k].obs = o THEN FALSE ELSE error[o]]

isPending(o) == cur[o] # NoSlot

(* --------------------------- ControlPage ------------------------------ *)
\* the control page as first rendered
ControlInit ==
    /\ statuses = [p \in Printers |-> NoStatus]
    /\ fetched = [p \in Printers |-> FetchFailed]
    /\ selectedPrinterId = NoPrinter
    /\ mvModal = NoModal
    /\ moveDistance = InitialMoveDistance
    /\ tpModal = NoModal
    /\ selectedTray = NoTray
    /\ isOn = TRUE
    /\ fanValues = [part |-> 100, aux |-> 0, chamber |-> 0]
    /\ streamEnabled = FALSE
    /\ Camera_isLoading = FALSE
    /\ Camera_error = FALSE
    /\ timers = 0
    /\ imgState = "none"
    /\ assumed = [p \in Printers |->
                     [isOn |-> TRUE, fanValues |-> [part |-> 100, aux |-> 0, chamber |-> 0]]]
    /\ cur = [o \in Observers |-> NoSlot]
    /\ error = [o \in Observers |-> FALSE]
    /\ net = [i \in Slots |-> NoMsg]
    /\ tokens = <<>>
    /\ sentTok = [t \in TokenIds |-> 0]
    /\ cancelledTok = {}
    /\ requests = 0

selectEffect(param, selected) ==
    IF param # NoPrinter THEN param
    ELSE IF selected = NoPrinter THEN 1 ELSE selected

\* a poll that keeps the previous snapshot of a printer whose fetch failed
queryFn_keepsPrevious(fetch) ==
    [p \in Printers |-> IF fetch[p] = FetchFailed THEN statuses[p] ELSE fetch[p]]

\* queryFn: a fresh statusMap; the printers whose fetch throws are left out
queryFn(fetch) ==
    [p \in Printers |-> IF fetch[p] = FetchFailed THEN NoStatus ELSE fetch[p]]

\* one poll: the query data is replaced by the result of queryFn; U are the
\* outcomes of the fetch for the selected printer, V for the other printers
Poll(U, V) ==
    /\ \E a \in (IF selectedPrinterId = 1 THEN U ELSE V),
          b \in (IF selectedPrinterId = 2 THEN U ELSE V) :
         /\ fetched' = [p \in Printers |-> IF p = 1 THEN a ELSE b]
         /\ fetched' # fetched
         /\ statuses' = queryFn(fetched')
    /\ UNCHANGED <<selectedPrinterId, panelVars, mutateVars, tokens, cancelledTok, printModalVars, cameraVars, assumed>>

PollHandshake == Poll(HandshakeSnapshots, HandshakeSnapshots)

PollAms == Poll(AmsSnapshots, AmsSnapshots)

PollTemperature == Poll(TemperatureSnapshots, {FetchFailed})

PollPermission == Poll(PermissionSnapshots \cup {FetchFailed}, {FetchFailed})

\* the effect "Initialize selected printer from URL or first printer", run with
\* the 'printer' search parameter param (NoPrinter: the parameter is absent)
searchParamsEffect(param) ==
    /\ selectedPrinterId' = selectEffect(param, selectedPrinterId)
    /\ selectedPrinterId' # selectedPrinterId
    /\ UNCHANGED <<statuses, fetched, panelVars, mutateVars, tokens, cancelledTok, printModalVars, cameraVars, assumed>>

handlePrinterSelect(printerId) ==
    /\ selectedPrinter
    /\ selectedPrinterId' = printerId
    /\ selectedPrinterId' # selectedPrinterId
    /\ UNCHANGED <<statuses, fetched, panelVars, mutateVars, tokens, cancelledTok, printModalVars, cameraVars, assumed>>

(* ------------------------- MovementControls --------------------------- *)
\* ConfirmModal is imported from '../ConfirmModal', which is not among the
\* sources.  Section 4.2: while a prompt is displayed "no other command of any
\* kind is blocked globally".
promptBlocksControls == FALSE

rendered == selectedPrinter /\ ~promptBlocksControls

\* the distances and buttons the user picks, of [1, 10, 50] and the six
\* buttons of the movement grid (axis, sign)
MoveDistances == {10, 50}
MoveButtons == {<<"X", 1>>, <<"Z", -1>>}

Movement_isLoading == isPending("home") \/ isPending("move") \/ isPending("disable")

Movement_disabled == ~isConnected(selectedStatus) \/ Movement_isLoading

setMoveDistance(d) ==
    /\ rendered
    /\ d # moveDistance
    /\ moveDistance' = d
    /\ UNCHANGED <<pageVars, mvModal, tpModal, localVars, mutateVars, tokens, cancelledTok, printModalVars, cameraVars, assumed>>

\* a Home click that sends the token of the prompt on display
handleHome_resendsToken ==
    /\ rendered
    /\ ~Movement_disabled
    /\ mutate(<<Request("home", "XYZ", 0, 0,
                        IF mvModal # NoModal THEN mvModal.token ELSE NoToken, "click")>>)
    /\ UNCHANGED <<pageVars, panelVars, tokens, cancelledTok, printModalVars, cameraVars, assumed>>

handleHome ==
    /\ rendered
    /\ ~Movement_disabled
    /\ mutate(<<Request("home", "XYZ", 0, 0, NoToken, "click")>>)
    /\ UNCHANGED <<pageVars, panelVars, tokens, cancelledTok, printModalVars, cameraVars, assumed>>

handleMove(axis, distance) ==
    /\ rendered
    /\ ~Movement_disabled
    /\ mutate(<<Request("move", axis, distance, 0, NoToken, "click")>>)
    /\ UNCHANGED <<pageVars, panelVars, tokens, cancelledTok, printModalVars, cameraVars, assumed>>

handleDisableMotors ==
    /\ rendered
    /\ ~Movement_disabled
    /\ mutate(<<Request("disable", "", 0, 0, NoToken, "click")>>)
    /\ UNCHANGED <<pageVars, panelVars, tokens, cancelledTok, printModalVars, cameraVars, assumed>>

Movement_onSuccess(m, modal) ==
    IF m.result = "challenge"
    THEN [action |-> m.obs, token |-> m.rtoken,
          axis |-> IF m.obs = "home" THEN "XYZ" ELSE m.axis, value |-> m.value]
    ELSE modal

Movement_handleConfirm ==
    /\ selectedPrinter
    /\ mvModal # NoModal
    /\ mutate(<<Request(mvModal.action, mvModal.axis, mvModal.value, 0,
                        mvModal.token, "confirm")>>)
    /\ mvModal' = NoModal
    /\ UNCHANGED <<pageVars, moveDistance, tpModal, localVars, tokens, cancelledTok, printModalVars, cameraVars, assumed>>

\* a Cancel that leaves the prompt, and its token, in place
Movement_onCancel_keepsPrompt ==
    /\ selectedPrinter
    /\ mvModal # NoModal
    /\ mvModal' = mvModal
    /\ cancelledTok' = cancelledTok \cup {mvModal.token}
    /\ UNCHANGED <<pageVars, moveDistance, tpModal, localVars, mutateVars, tokens, printModalVars, cameraVars, assumed>>

Movement_onCancel ==
    /\ selectedPrinter
    /\ mvModal # NoModal
    /\ mvModal' = NoModal
    /\ cancelledTok' = cancelledTok \cup {mvModal.token}
    /\ UNCHANGED <<pageVars, moveDistance, tpModal, localVars, mutateVars, tokens, printModalVars, cameraVars, assumed>>

(* -------------------------- TemperaturePanel -------------------------- *)
\* the presets the user picks, of the five of PRESETS
PRESETS == {[name |-> "Off", bed |-> 0, nozzle |-> 0],
            [name |-> "ABS", bed |-> 90, nozzle |-> 260]}

Deltas == {5, -5}

Max(a, b) == IF a >= b THEN a ELSE b
Min(a, b) == IF a <= b THEN a ELSE b

temps(status) ==
    IF status = NoStatus
    THEN [bed_target |-> 0, nozzle_target |-> 0, nozzle_2_target |-> 0]
    ELSE [bed_target |-> status.bed_target, nozzle_target |-> status.nozzle_target,
          nozzle_2_target |-> status.nozzle_2_target]

\* a target computed from the first nozzle's reported target for both nozzles
newTarget_firstNozzle(type, delta, nozzle) ==
    LET currentTarget ==
            IF type = "bed" THEN temps(selectedStatus).bed_target
            ELSE temps(selectedStatus).nozzle_target
    IN  Max(0, Min(IF type = "bed" THEN 120 ELSE 300, currentTarget + delta))

newTarget(type, delta, nozzle) ==
    LET currentTarget ==
            IF type = "bed" THEN temps(selectedStatus).bed_target
            ELSE IF nozzle = 0 THEN temps(selectedStatus).nozzle_target
            ELSE temps(selectedStatus).nozzle_2_target
    IN  Max(0, Min(IF type = "bed" THEN 120 ELSE 300, currentTarget + delta))

Preset_disabled == ~isConnected(selectedStatus)
Bed_disabled == ~isConnected(selectedStatus) \/ isPending("bed")
Nozzle_disabled == ~isConnected(selectedStatus) \/ isPending("nozzle")

handlePreset(preset) ==
    /\ rendered
    /\ ~Preset_disabled
    /\ mutate(<<Request("bed", "", preset.bed, 0, NoToken, "click"),
                Request("nozzle", "", preset.nozzle, 0, NoToken, "click")>>
              \o (IF nozzle_count(selectedPrinterId) > 1
                  THEN <<Request("nozzle", "", preset.nozzle, 1, NoToken, "click")>>
                  ELSE <<>>))
    /\ UNCHANGED <<pageVars, panelVars, tokens, cancelledTok, printModalVars, cameraVars, assumed>>

adjustTemp(type, delta, nozzle) ==
    /\ rendered
    /\ IF type = "bed" THEN ~Bed_disabled
       ELSE ~Nozzle_disabled /\ nozzle < nozzle_count(selectedPrinterId)
    /\ mutate(<<Request(type, "", newTarget(type, delta, nozzle), nozzle,
                        NoToken, "click")>>)
    /\ UNCHANGED <<pageVars, panelVars, tokens, cancelledTok, printModalVars, cameraVars, assumed>>

\* a nozzle challenge stored without its nozzle index
Temperature_onSuccess_dropsNozzle(m, modal) ==
    IF m.result = "challenge"
    THEN [type |-> m.obs, target |-> m.value, nozzle |-> 0, token |-> m.rtoken]
    ELSE modal

Temperature_onSuccess(m, modal) ==
    IF m.result = "challenge"
    THEN [type |-> m.obs, target |-> m.value, nozzle |-> m.nozzle, token |-> m.rtoken]
    ELSE modal

Temperature_handleConfirm ==
    /\ selectedPrinter
    /\ tpModal # NoModal
    /\ mutate(<<Request(tpModal.type, "", tpModal.target,
                        IF tpModal.type = "bed" THEN 0 ELSE tpModal.nozzle,
                        tpModal.token, "confirm")>>)
    /\ tpModal' = NoModal
    /\ UNCHANGED <<pageVars, mvModal, moveDistance, localVars, tokens, cancelledTok, printModalVars, cameraVars, assumed>>

Temperature_onCancel ==
    /\ selectedPrinter
    /\ tpModal # NoModal
    /\ tpModal' = NoModal
    /\ cancelledTok' = cancelledTok \cup {tpModal.token}
    /\ UNCHANGED <<pageVars, mvModal, moveDistance, localVars, mutateVars, tokens, printModalVars, cameraVars, assumed>>

(* ---------------------------- SpeedControl ---------------------------- *)
\* the modes the user picks, of the four of SPEED_MODES
SPEED_MODES == {2, 4}

\* speed buttons that also count a paused print as printing
Speed_isPrinting_orPaused == stateOf(selectedStatus) \in {"RUNNING", "PAUSE"}

Speed_isPrinting == stateOf(selectedStatus) = "RUNNING"

Speed_disabled ==
    ~isConnected(selectedStatus) \/ ~Speed_isPrinting \/ isPending("speed")

Speed_onClick(mode) ==
    /\ rendered
    /\ ~Speed_disabled
    /\ mutate(<<Request("speed", "", mode, 0, NoToken, "click")>>)
    /\ UNCHANGED <<pageVars, panelVars, tokens, cancelledTok, printModalVars, cameraVars, assumed>>

(* ---------------------------- FanControls ----------------------------- *)
\* the values the user releases a slider at, of 0, 5, .., 100
FanSpeeds == {0, 50}

\* fan sliders that are switched off during a print
Fan_disabled_whilePrinting ==
    ~isConnected(selectedStatus) \/ stateOf(selectedStatus) = "RUNNING"

Fan_disabled == ~isConnected(selectedStatus)

\* FanSlider.handleMouseUp after the slider was dragged to localValue
FanSlider_handleMouseUp(fan, localValue) ==
    /\ rendered
    /\ ~Fan_disabled
    /\ localValue # fanValues[fan]
    /\ mutate(<<Request(fan, "", localValue, 0, NoToken, "click")>>)
    /\ UNCHANGED <<pageVars, panelVars, tokens, cancelledTok, printModalVars, cameraVars, assumed>>

Fan_onSuccess(m, values) == [values EXCEPT ![m.obs] = m.value]

(* ---------------------------- LightToggle ----------------------------- *)
\* a light button disabled only while its mutation is pending
Light_disabled_pendingOnly == isPending("light")

Light_disabled == ~isConnected(selectedStatus) \/ isPending("light")

handleToggle ==
    /\ rendered
    /\ ~Light_disabled
    /\ mutate(<<Request("light", "", ~isOn, 0, NoToken, "click")>>)
    /\ UNCHANGED <<pageVars, panelVars, tokens, cancelledTok, printModalVars, cameraVars, assumed>>

(* ------------------------------ AMSPanel ------------------------------ *)
\* raw_data.ams of the status, unit by unit and tray by tray; a tray that
\* reports no tray_type gets the type 'Unknown'
parseAMSData(status) ==
    IF status = NoStatus THEN <<>>
    ELSE [u \in 1..Len(status.ams) |->
             [id |-> status.ams[u].id,
              trays |-> [t \in 1..Len(status.ams[u].tray) |->
                            [id |-> status.ams[u].tray[t].id,
                             type |-> IF status.ams[u].tray[t].tray_type = "undefined"
                                      THEN "Unknown"
                                      ELSE status.ams[u].tray[t].tray_type]]]]

amsUnits == parseAMSData(selectedStatus)

AMS_isPrinting == stateOf(selectedStatus) = "RUNNING"

AMS_isLoading == isPending("load") \/ isPending("unload")

isEmpty(tray) == tray.type = "NONE" \/ tray.type = ""

globalTrayId(unit, tray) == unit.id * 4 + tray.id

\* the Load and Unload buttons exist only when an AMS unit is reported
AMS_rendered == rendered /\ Len(amsUnits) > 0

Load_disabled ==
    ~isConnected(selectedStatus) \/ AMS_isPrinting \/ selectedTray = NoTray
        \/ AMS_isLoading

Unload_disabled == ~isConnected(selectedStatus) \/ AMS_isPrinting \/ AMS_isLoading

Tray_onClick(u, t) ==
    /\ rendered
    /\ u \in 1..Len(amsUnits)
    /\ t \in 1..Len(amsUnits[u].trays)
    /\ LET unit == amsUnits[u]
           tray == unit.trays[t]
       IN  /\ ~(isEmpty(tray) \/ AMS_isPrinting)
           /\ selectedTray' = IF selectedTray = globalTrayId(unit, tray)
                              THEN NoTray ELSE globalTrayId(unit, tray)
    /\ UNCHANGED <<pageVars, handshakeVars, isOn, fanValues, streamEnabled, mutateVars,
                   tokens, cancelledTok, printModalVars, cameraVars, assumed>>

handleLoad ==
    /\ AMS_rendered
    /\ ~Load_disabled
    /\ selectedTray # NoTray
    /\ mutate(<<Request("load", "", selectedTray, 0, NoToken, "click")>>)
    /\ UNCHANGED <<pageVars, panelVars, tokens, cancelledTok, printModalVars, cameraVars, assumed>>

handleUnload ==
    /\ AMS_rendered
    /\ ~Unload_disabled
    /\ mutate(<<Request("unload", "", 0, 0, NoToken, "click")>>)
    /\ UNCHANGED <<pageVars, panelVars, tokens, cancelledTok, printModalVars, cameraVars, assumed>>

(* ----------------------------- CameraFeed ----------------------------- *)
Camera_disabled == ~isConnected(selectedStatus)

\* the stream <img> is rendered: the stream is enabled and no error is set
imgMounted(enabled, err) == enabled /\ ~err

\* the <img> after a render: a newly mounted one starts to load its src
imgAfter(enabled, err) ==
    IF ~imgMounted(enabled, err) THEN "none"
    ELSE IF imgState = "none" THEN "loading"
    ELSE imgState

handleToggleStream ==
    /\ rendered
    /\ ~Camera_disabled
    /\ streamEnabled' = ~streamEnabled
    /\ Camera_isLoading' = IF streamEnabled THEN Camera_isLoading ELSE TRUE
    /\ Camera_error' = FALSE
    /\ imgState' = imgAfter(streamEnabled', Camera_error')
    /\ UNCHANGED <<pageVars, handshakeVars, selectedTray, isOn, fanValues, mutateVars,
                   tokens, cancelledTok, printModalVars, timers, assumed>>

\* the Refresh button of the header and the Retry button of the error display
handleRefresh ==
    /\ rendered
    /\ streamEnabled
    /\ timers < MaxTimers
    /\ streamEnabled' = FALSE
    /\ timers' = timers + 1
    /\ imgState' = imgAfter(streamEnabled', Camera_error)
    /\ UNCHANGED <<pageVars, handshakeVars, selectedTray, isOn, fanValues, mutateVars,
                   tokens, cancelledTok, printModalVars, Camera_isLoading, Camera_error, assumed>>

\* the callback of setTimeout(..., 100)
restartTimeout ==
    /\ timers > 0
    /\ timers' = timers - 1
    /\ Camera_isLoading' = TRUE
    /\ streamEnabled' = TRUE
    /\ imgState' = imgAfter(streamEnabled', Camera_error)
    /\ UNCHANGED <<pageVars, handshakeVars, selectedTray, isOn, fanValues, mutateVars,
                   tokens, cancelledTok, printModalVars, Camera_error, assumed>>

\* onLoad of the <img>
handleImageLoad ==
    /\ imgState = "loading"
    /\ Camera_isLoading' = FALSE
    /\ Camera_error' = FALSE
    /\ imgState' = "loaded"
    /\ UNCHANGED <<pageVars, handshakeVars, localVars, mutateVars, tokens, cancelledTok,
                   printModalVars, timers, assumed>>

\* onError of the <img>: the load fails, or the stream breaks off
handleImageError ==
    /\ imgState \in {"loading", "loaded"}
    /\ Camera_isLoading' = FALSE
    /\ Camera_error' = TRUE
    /\ imgState' = imgAfter(streamEnabled, Camera_error')
    /\ UNCHANGED <<pageVars, handshakeVars, localVars, mutateVars, tokens, cancelledTok,
                   printModalVars, timers, assumed>>

(* --------------------------- error displays --------------------------- *)
\* e: the error flags of the observers.  TemperaturePanel renders no error
\* element at all.
Movement_errorShown(e) == e["home"] \/ e["move"] \/ e["disable"]
Temperature_errorShown(e) == FALSE
Speed_errorShown(e) == e["speed"]
Fan_errorShown(e) == e["part"] \/ e["aux"] \/ e["chamber"]
Light_errorShown(e) == e["light"]
AMS_errorShown(e) == e["load"] \/ e["unload"]

\* the error display of the panel that owns observer o
errorShownFor(e, o) ==
    IF o \in MovementObservers THEN Movement_errorShown(e)
    ELSE IF o \in TemperatureObservers THEN Temperature_errorShown(e)
    ELSE IF o \in FanObservers THEN Fan_errorShown(e)
    ELSE IF o = "speed" THEN Speed_errorShown(e)
    ELSE IF o = "light" THEN Light_errorShown(e)
    ELSE AMS_errorShown(e)

(* ------------------------ command executor ---------------------------- *)
\* devicePrinting: the device is printing or paused when the request arrives
IsDangerous(m, devicePrinting) ==
    \/ m.obs = "disable"
    \/ m.obs \in {"home", "move"} /\ devicePrinting
    \/ m.obs = "bed" /\ m.value > BedWarnAbove
    \/ m.obs = "nozzle" /\ m.value > NozzleWarnAbove

Issued(p, o) == {t \in 1..Len(tokens) : tokens[t].printer = p /\ tokens[t].obs = o}

\* the token must match the most recently issued challenge for that command
\* kind and target, and must not have been consumed
TokenValid(m) ==
    /\ m.token \in Issued(m.printer, m.obs)
    /\ \A t \in Issued(m.printer, m.obs) : t <= m.token
    /\ ~tokens[m.token].used

Respond(m, result, rtoken, dangerous, executed) ==
    [m EXCEPT !.phase = "resp", !.result = result, !.rtoken = rtoken,
              !.dangerous = dangerous, !.executed = executed]

ExecutorProcess(i) ==
    /\ net[i] # NoMsg
    /\ net[i].phase = "req"
    /\ \E devicePrinting \in BOOLEAN, deviceOk \in BOOLEAN :
         LET m == net[i]
             d == IsDangerous(m, devicePrinting)
         IN  IF m.token = NoToken /\ d
             THEN /\ Len(tokens) < MaxRequests
                  /\ tokens' = Append(tokens, [printer |-> m.printer, obs |-> m.obs,
                                               axis |-> m.axis, value |-> m.value,
                                               nozzle |-> m.nozzle, used |-> FALSE])
                  /\ net' = [net EXCEPT ![i] =
                                Respond(m, "challenge", Len(tokens) + 1, d, FALSE)]
             ELSE IF m.token = NoToken \/ TokenValid(m)
             THEN /\ tokens' = IF m.token = NoToken THEN tokens
                               ELSE [tokens EXCEPT ![m.token].used = TRUE]
                  /\ net' = [net EXCEPT ![i] =
                                Respond(m, IF deviceOk THEN "ok" ELSE "ExecutionFailed",
                                        NoToken, d, deviceOk)]
             ELSE /\ tokens' = IF m.token \in 1..Len(tokens)
                               THEN [tokens EXCEPT ![m.token].used = TRUE]
                               ELSE tokens
                  /\ net' = [net EXCEPT ![i] =
                                Respond(m, "InvalidOrExpiredToken", NoToken, d, FALSE)]
    /\ UNCHANGED <<pageVars, panelVars, cur, error, sentTok, cancelledTok, requests,
                   printModalVars, cameraVars, assumed>>

\* the request never reaches the executor
Unreachable(i) ==
    /\ net[i] # NoMsg
    /\ net[i].phase = "req"
    /\ net' = [net EXCEPT ![i] = Respond(net[i], "Unreachable", NoToken, FALSE, FALSE)]
    /\ UNCHANGED <<pageVars, panelVars, cur, error, tokens, sentTok, cancelledTok,
                   requests, printModalVars, cameraVars, assumed>>

(* --------------------- responses reaching the UI ---------------------- *)
isSuccess(m) == m.result \in {"ok", "challenge"}

\* what the commands that succeeded so far have set on each printer
assumedAfter(m) ==
    IF isSuccess(m) /\ m.obs = "light"
    THEN [assumed EXCEPT ![m.printer].isOn = m.value]
    ELSE IF isSuccess(m) /\ m.obs \in FanObservers
    THEN [assumed EXCEPT ![m.printer].fanValues = Fan_onSuccess(m, @)]
    ELSE assumed

\* a failed request is sent again when its response arrives
Deliver_retriesFailed(i) ==
    /\ net[i] # NoMsg
    /\ net[i].phase = "resp"
    /\ LET m == net[i]
       IN  /\ net' = IF isSuccess(m) THEN [net EXCEPT ![i] = NoMsg]
                     ELSE [net EXCEPT ![i] = [m EXCEPT !.phase = "req", !.result = "none"]]
           /\ cur' = IF cur[m.obs] = i /\ isSuccess(m)
                     THEN [cur EXCEPT ![m.obs] = NoSlot] ELSE cur
           /\ error' = error
           /\ mvModal' = IF isSuccess(m) /\ m.obs \in MovementObservers
                         THEN Movement_onSuccess(m, mvModal) ELSE mvModal
           /\ tpModal' = IF isSuccess(m) /\ m.obs \in TemperatureObservers
                         THEN Temperature_onSuccess(m, tpModal) ELSE tpModal
           /\ fanValues' = IF isSuccess(m) /\ m.obs \in FanObservers
                           THEN Fan_onSuccess(m, fanValues) ELSE fanValues
           /\ isOn' = IF isSuccess(m) /\ m.obs = "light" THEN m.value ELSE isOn
           /\ assumed' = assumedAfter(m)
    /\ UNCHANGED <<pageVars, moveDistance, selectedTray, streamEnabled, tokens, sentTok,
                   cancelledTok, requests, printModalVars, cameraVars>>

Deliver(i) ==
    /\ net[i] # NoMsg
    /\ net[i].phase = "resp"
    /\ LET m == net[i]
       IN  /\ net' = [net EXCEPT ![i] = NoMsg]
           /\ cur' = IF cur[m.obs] = i THEN [cur EXCEPT ![m.obs] = NoSlot] ELSE cur
           /\ error' = IF cur[m.obs] = i /\ ~isSuccess(m)
                       THEN [error EXCEPT ![m.obs] = TRUE] ELSE error
           /\ mvModal' = IF isSuccess(m) /\ m.obs \in MovementObservers
                         THEN Movement_onSuccess(m, mvModal) ELSE mvModal
           /\ tpModal' = IF isSuccess(m) /\ m.obs \in TemperatureObservers
                         THEN Temperature_onSuccess(m, tpModal) ELSE tpModal
           /\ fanValues' = IF isSuccess(m) /\ m.obs \in FanObservers
                           THEN Fan_onSuccess(m, fanValues) ELSE fanValues
           /\ isOn' = IF isSuccess(m) /\ m.obs = "light" THEN m.value ELSE isOn
           /\ assumed' = assumedAfter(m)
    /\ UNCHANGED <<pageVars, moveDistance, selectedTray, streamEnabled, tokens, sentTok,
                   cancelledTok, requests, printModalVars, cameraVars>>

(* ------------------------------ PrintModal ---------------------------- *)
NoPlate == 0
NoItem == [noItem |-> TRUE]
NoData == [noData |-> TRUE]
NoTime == [noTime |-> TRUE]
\* ams_mapping null, or an empty array
NoMapping == <<>>
\* printers undefined, or an empty list
NoPrinters == <<>>
EmptyString == [emptyString |-> TRUE]

Modes == {"reprint", "add-to-queue", "edit-queue-item"}

\* the filament slots of the print job and the trays the user maps them to
ModalSlots == {1, 2}
ModalTrays == {5}

\* local time minus UTC, in minutes, of the browser
TzOffsets == {-300, 0, 330}

\* a date-time text: its fields, and "Z" when it names UTC ("" when it names
\* no zone, as the value of a datetime-local input)
IsoString(day, hour, minute, second, zone) ==
    [day |-> day, hour |-> hour, minute |-> minute, second |-> second, zone |-> zone]

\* new Date(text): seconds since day 0, 00:00 UTC; a date-time text without a
\* zone is taken as local time
DateParse(s, offset) ==
    LET wall == ((s.day * 24 + s.hour) * 60 + s.minute) * 60 + s.second
    IN  IF s.zone = "Z" THEN wall ELSE wall - offset * 60

\* Date.prototype.toISOString: the UTC fields of the instant
toISOString(t) ==
    IsoString(t \div 86400, (t % 86400) \div 3600, (t % 3600) \div 60, t % 60, "Z")

\* text.slice(0, 16): 'YYYY-MM-DDTHH:MM', without seconds and without zone
slice16(s) == IsoString(s.day, s.hour, s.minute, 0, "")

\* the scheduled_time values of the queue items, as the server sends them
ScheduledTimes == {IsoString(1, 23, 30, 30, "Z")}

\* the values a user types into the datetime-local input
TypedTimes == {IsoString(2, 8, 15, 0, "")}

QueueItems ==
    [printer_id : {NoPrinter, 1}, plate_id : {NoPlate, 1}, manual_start : BOOLEAN,
     scheduled_time : {NoTime} \cup ScheduledTimes,
     ams_mapping : {NoMapping, <<NoTray, 5>>}]

PrinterLists ==
    {<<[id |-> 1, is_active |-> TRUE]>>,
     <<[id |-> 1, is_active |-> FALSE]>>,
     <<[id |-> 1, is_active |-> TRUE], [id |-> 2, is_active |-> TRUE]>>,
     <<[id |-> 1, is_active |-> TRUE], [id |-> 2, is_active |-> FALSE]>>}

\* PrinterSelector: the printers of the grid
activePrinters(pr) == {k \in 1..Len(pr) : pr[k].is_active}

PlatesDatas == {[is_multi_plate |-> FALSE, plates |-> <<1>>],
                [is_multi_plate |-> TRUE, plates |-> <<1, 2>>]}

NoMappings == [s \in ModalSlots |-> NoTray]
NotEntered == [s \in ModalSlots |-> <<NoPrinter, NoPlate>>]

DEFAULT_SCHEDULE_OPTIONS == [scheduleType |-> "asap", scheduledTime |-> EmptyString]

\* the initializer of scheduleOptions
initialScheduleOptions(m, item, offset) ==
    IF m = "edit-queue-item" /\ item # NoItem
    THEN [scheduleType |-> IF item.manual_start THEN "manual"
                           ELSE IF item.scheduled_time # NoTime THEN "scheduled"
                           ELSE "asap",
          scheduledTime |-> IF item.scheduled_time # NoTime
                            THEN slice16(toISOString(DateParse(item.scheduled_time, offset)))
                            ELSE EmptyString]
    ELSE DEFAULT_SCHEDULE_OPTIONS

\* the initializer of manualMappings: entry idx of ams_mapping is slot idx + 1
initialManualMappings(m, item) ==
    IF m = "edit-queue-item" /\ item # NoItem /\ item.ams_mapping # NoMapping
    THEN [s \in ModalSlots |->
             IF s <= Len(item.ams_mapping) THEN item.ams_mapping[s] ELSE NoTray]
    ELSE NoMappings

\* the modal is not mounted
PrintModalClosed ==
    /\ Print_mode = "closed"
    /\ queueItem = NoItem
    /\ tzOffset = 0
    /\ printers = NoPrinters
    /\ platesData = NoData
    /\ Print_selectedPrinter = NoPrinter
    /\ Print_selectedPlate = NoPlate
    /\ scheduleOptions = DEFAULT_SCHEDULE_OPTIONS
    /\ manualMappings = NoMappings
    /\ initialPrinterId = NoPrinter
    /\ initialPlateId = NoPlate
    /\ submitted = NoData
    /\ enteredFor = NotEntered
    /\ scheduleTouched = FALSE

\* the modal as mounted with its props, in a browser of some time zone
PrintModalInit ==
    /\ Print_mode \in Modes
    /\ queueItem \in (IF Print_mode = "edit-queue-item" THEN QueueItems ELSE {NoItem})
    /\ tzOffset \in TzOffsets
    /\ printers = NoPrinters
    /\ platesData = NoData
    /\ Print_selectedPrinter = IF queueItem # NoItem THEN queueItem.printer_id ELSE NoPrinter
    /\ Print_selectedPlate = IF queueItem # NoItem THEN queueItem.plate_id ELSE NoPlate
    /\ scheduleOptions = initialScheduleOptions(Print_mode, queueItem, tzOffset)
    /\ manualMappings = initialManualMappings(Print_mode, queueItem)
    /\ initialPrinterId = IF queueItem # NoItem THEN queueItem.printer_id ELSE NoPrinter
    /\ initialPlateId = IF queueItem # NoItem THEN queueItem.plate_id ELSE NoPlate
    /\ submitted = NoData
    /\ enteredFor = [s \in ModalSlots |-> <<Print_selectedPrinter, Print_selectedPlate>>]
    /\ scheduleTouched = FALSE

\* the effect "Auto-select first plate for single-plate files"
autoSelectPlate(pd, plate) ==
    IF pd # NoData /\ Len(pd.plates) = 1 /\ plate = NoPlate THEN pd.plates[1] ELSE plate

\* the effect "Auto-select first printer when only one available"
autoSelectPrinter(m, pr, printer) ==
    IF m = "add-to-queue" /\ Len(pr) = 1 /\ printer = NoPrinter
    THEN pr[1].id ELSE printer

\* the effect "Clear manual mappings when printer or plate changes", run for
\* the selection of a render: whether it calls setManualMappings({})
clearsManualMappings(m, printer, plate) ==
    IF m = "edit-queue-item"
    THEN printer # initialPrinterId \/ plate # initialPlateId
    ELSE TRUE

\* the renders that follow an event which left the selection (printer, plate)
\* and the query data pr and pd: the effects run after the first render, the
\* auto-selections they make cause a second one, and the clearing effect runs
\* after each render whose selection differs from the one before
render(printer, plate, pr, pd, mappings, entered) ==
    LET printer2 == autoSelectPrinter(Print_mode, pr, printer)
        plate2 == autoSelectPlate(pd, plate)
        clear == \/ /\ <<printer, plate>> # <<Print_selectedPrinter, Print_selectedPlate>>
                    /\ clearsManualMappings(Print_mode, printer, plate)
                 \/ /\ <<printer2, plate2>> # <<printer, plate>>
                    /\ clearsManualMappings(Print_mode, printer2, plate2)
    IN  /\ printers' = pr
        /\ platesData' = pd
        /\ Print_selectedPrinter' = printer2
        /\ Print_selectedPlate' = plate2
        /\ manualMappings' = IF clear THEN NoMappings ELSE mappings
        /\ enteredFor' = IF clear THEN NotEntered ELSE entered

Print_isPending == submitted # NoData

mounted == Print_mode # "closed"

\* the 'printers' query delivers its data
printersLoaded(pr) ==
    /\ mounted
    /\ printers = NoPrinters
    /\ render(Print_selectedPrinter, Print_selectedPlate, pr, platesData,
              manualMappings, enteredFor)
    /\ UNCHANGED <<controlVars, Print_mode, queueItem, tzOffset, scheduleOptions,
                   initialPrinterId, initialPlateId, submitted, scheduleTouched>>

\* the 'archive-plates' query delivers its data
platesLoaded(pd) ==
    /\ mounted
    /\ platesData = NoData
    /\ render(Print_selectedPrinter, Print_selectedPlate, printers, pd,
              manualMappings, enteredFor)
    /\ UNCHANGED <<controlVars, Print_mode, queueItem, tzOffset, scheduleOptions,
                   initialPrinterId, initialPlateId, submitted, scheduleTouched>>

\* PrinterSelector onSelect: a printer of the list, or none in the dropdown of
\* the edit mode
setSelectedPrinter(p) ==
    /\ mounted
    /\ IF Print_mode = "edit-queue-item"
       THEN p = NoPrinter \/ \E k \in 1..Len(printers) : printers[k].id = p
       ELSE \E k \in activePrinters(printers) : printers[k].id = p
    /\ p # Print_selectedPrinter
    /\ render(p, Print_selectedPlate, printers, platesData, manualMappings, enteredFor)
    /\ UNCHANGED <<controlVars, Print_mode, queueItem, tzOffset, scheduleOptions,
                   initialPrinterId, initialPlateId, submitted, scheduleTouched>>

\* PlateSelector onSelect
setSelectedPlate(pl) ==
    /\ mounted
    /\ platesData # NoData
    /\ platesData.is_multi_plate
    /\ \E k \in 1..Len(platesData.plates) : platesData.plates[k] = pl
    /\ pl # Print_selectedPlate
    /\ render(Print_selectedPrinter, pl, printers, platesData, manualMappings, enteredFor)
    /\ UNCHANGED <<controlVars, Print_mode, queueItem, tzOffset, scheduleOptions,
                   initialPrinterId, initialPlateId, submitted, scheduleTouched>>

isMultiPlate == IF platesData = NoData THEN FALSE ELSE platesData.is_multi_plate

\* FilamentMapping is shown when a printer is selected and the plate is ready
FilamentMapping_rendered ==
    /\ mounted
    /\ Print_selectedPrinter # NoPrinter
    /\ isMultiPlate => Print_selectedPlate # NoPlate

\* FilamentMapping onManualMappingChange: the user maps slot to tray
onManualMappingChange(slot, tray) ==
    /\ FilamentMapping_rendered
    /\ manualMappings[slot] # tray
    /\ manualMappings' = [manualMappings EXCEPT ![slot] = tray]
    /\ enteredFor' = [enteredFor EXCEPT
                          ![slot] = <<Print_selectedPrinter, Print_selectedPlate>>]
    /\ UNCHANGED <<controlVars, Print_mode, queueItem, tzOffset, printers, platesData,
                   Print_selectedPrinter, Print_selectedPlate, scheduleOptions,
                   initialPrinterId, initialPlateId, submitted, scheduleTouched>>

\* ScheduleOptionsPanel onChange
setScheduleOptions(options) ==
    /\ mounted
    /\ Print_mode # "reprint"
    /\ options # scheduleOptions
    /\ scheduleOptions' = options
    /\ scheduleTouched' = TRUE
    /\ UNCHANGED <<controlVars, Print_mode, queueItem, tzOffset, printers, platesData,
                   Print_selectedPrinter, Print_selectedPlate, manualMappings,
                   initialPrinterId, initialPlateId, submitted, enteredFor>>

\* a submit button that stays enabled while a submission is pending
canSubmit_whilePending ==
    IF Print_mode = "edit-queue-item"
    THEN Len(printers) > 0
    ELSE /\ Print_selectedPrinter # NoPrinter
         /\ ~(isMultiPlate /\ Print_selectedPlate = NoPlate)

canSubmit ==
    IF Print_mode = "edit-queue-item"
    THEN ~Print_isPending /\ Len(printers) > 0
    ELSE /\ Print_selectedPrinter # NoPrinter
         /\ ~(isMultiPlate /\ Print_selectedPlate = NoPlate)
         /\ ~Print_isPending

\* the scheduled_time of the submitted data: the text of the input read as a
\* Date and written as an ISO text; null in the edit mode, and left out in the
\* add-to-queue mode, when the print is not scheduled
submittedTime ==
    IF scheduleOptions.scheduleType = "scheduled"
           /\ scheduleOptions.scheduledTime # EmptyString
    THEN toISOString(DateParse(scheduleOptions.scheduledTime, tzOffset))
    ELSE NoTime

\* handleSubmit; manualMappings is what useFilamentMapping turns into the
\* ams_mapping of the data
handleSubmit ==
    /\ mounted
    /\ canSubmit
    /\ submitted' = [printer_id |-> Print_selectedPrinter,
                     plate_id |-> Print_selectedPlate,
                     manual_start |-> IF Print_mode = "reprint" THEN FALSE
                                      ELSE scheduleOptions.scheduleType = "manual",
                     scheduled_time |-> IF Print_mode = "reprint" THEN NoTime ELSE submittedTime,
                     manualMappings |-> manualMappings]
    /\ UNCHANGED <<controlVars, Print_mode, queueItem, tzOffset, printers, platesData,
                   Print_selectedPrinter, Print_selectedPlate, scheduleOptions,
                   manualMappings, initialPrinterId, initialPlateId, enteredFor,
                   scheduleTouched>>

\* onError of the three mutations: a toast; the modal stays open
Print_onError ==
    /\ mounted
    /\ Print_isPending
    /\ submitted' = NoData
    /\ UNCHANGED <<controlVars, Print_mode, queueItem, tzOffset, printers, platesData,
                   Print_selectedPrinter, Print_selectedPlate, scheduleOptions,
                   manualMappings, initialPrinterId, initialPlateId, enteredFor,
                   scheduleTouched>>

\* onSuccess of the three mutations: onClose, the parent unmounts the modal
Print_onSuccess ==
    /\ mounted
    /\ Print_isPending
    /\ Print_mode' = "closed"
    /\ queueItem' = NoItem
    /\ tzOffset' = 0
    /\ printers' = NoPrinters
    /\ platesData' = NoData
    /\ Print_selectedPrinter' = NoPrinter
    /\ Print_selectedPlate' = NoPlate
    /\ scheduleOptions' = DEFAULT_SCHEDULE_OPTIONS
    /\ manualMappings' = NoMappings
    /\ initialPrinterId' = NoPrinter
    /\ initialPlateId' = NoPlate
    /\ submitted' = NoData
    /\ enteredFor' = NotEntered
    /\ scheduleTouched' = FALSE
    /\ UNCHANGED controlVars

(* --------------------------- specifications --------------------------- *)
Init == ControlInit /\ PrintModalClosed

Next ==
    \/ PollHandshake
    \/ \E param \in Printers \cup {NoPrinter} : searchParamsEffect(param)
    \/ \E p \in Printers : handlePrinterSelect(p)
    \/ \E d \in MoveDistances : setMoveDistance(d)
    \/ handleHome
    \/ \E b \in MoveButtons : handleMove(b[1], b[2] * moveDistance)
    \/ handleDisableMotors
    \/ Movement_handleConfirm
    \/ Movement_onCancel
    \/ \E preset \in PRESETS : handlePreset(preset)
    \/ \E delta \in Deltas : adjustTemp("bed", delta, 0)
    \/ \E delta \in Deltas, nozzle \in {0, 1} : adjustTemp("nozzle", delta, nozzle)
    \/ Temperature_handleConfirm
    \/ Temperature_onCancel
    \/ \E i \in Slots : ExecutorProcess(i)
    \/ \E i \in Slots : Unreachable(i)
    \/ \E i \in Slots : Deliver(i)

Spec == Init /\ [][Next]_vars

NextPerm ==
    \/ PollPermission
    \/ searchParamsEffect(NoPrinter)
    \/ handleHome
    \/ \E b \in MoveButtons : handleMove(b[1], b[2] * moveDistance)
    \/ handleDisableMotors
    \/ Movement_handleConfirm
    \/ Movement_onCancel
    \/ \E preset \in PRESETS : handlePreset(preset)
    \/ \E delta \in Deltas : adjustTemp("bed", delta, 0)
    \/ \E delta \in Deltas, nozzle \in {0, 1} : adjustTemp("nozzle", delta, nozzle)
    \/ Temperature_handleConfirm
    \/ Temperature_onCancel
    \/ \E mode \in SPEED_MODES : Speed_onClick(mode)
    \/ \E fan \in FanObservers, v \in FanSpeeds : FanSlider_handleMouseUp(fan, v)
    \/ handleToggle
    \/ \E u \in {1}, t \in {1, 2} : Tray_onClick(u, t)
    \/ handleLoad
    \/ handleUnload
    \/ handleToggleStream
    \/ \E i \in Slots : ExecutorProcess(i)
    \/ \E i \in Slots : Deliver(i)

SpecPerm == Init /\ [][NextPerm]_vars

NextCamera ==
    \/ PollPermission
    \/ searchParamsEffect(NoPrinter)
    \/ handleToggleStream
    \/ handleRefresh
    \/ restartTimeout
    \/ handleImageLoad
    \/ handleImageError

SpecCamera == Init /\ [][NextCamera]_vars

NextIso ==
    \/ PollHandshake
    \/ searchParamsEffect(NoPrinter)
    \/ \E p \in Printers : handlePrinterSelect(p)
    \/ \E fan \in {"part"}, v \in FanSpeeds : FanSlider_handleMouseUp(fan, v)
    \/ handleToggle
    \/ \E i \in Slots : ExecutorProcess(i)
    \/ \E i \in Slots : Deliver(i)

SpecIso == Init /\ [][NextIso]_vars

NextAms ==
    \/ PollAms
    \/ searchParamsEffect(NoPrinter)
    \/ \E p \in Printers : handlePrinterSelect(p)
    \/ \E u \in {1}, t \in {1, 2} : Tray_onClick(u, t)
    \/ handleLoad
    \/ handleUnload
    \/ \E i \in Slots : ExecutorProcess(i)
    \/ \E i \in Slots : Deliver(i)

SpecAms == Init /\ [][NextAms]_vars

NextTemperature ==
    \/ PollTemperature
    \/ searchParamsEffect(2)
    \/ \E delta \in Deltas : adjustTemp("bed", delta, 0)
    \/ \E delta \in Deltas, nozzle \in {0, 1} : adjustTemp("nozzle", delta, nozzle)
    \/ Temperature_handleConfirm
    \/ Temperature_onCancel
    \/ \E i \in Slots : ExecutorProcess(i)
    \/ \E i \in Slots : Deliver(i)

SpecTemperature == Init /\ [][NextTemperature]_vars

InitModal == ControlInit /\ PrintModalInit

NextModal ==
    \/ \E pr \in PrinterLists : printersLoaded(pr)
    \/ \E pd \in PlatesDatas : platesLoaded(pd)
    \/ \E p \in Printers \cup {NoPrinter} : setSelectedPrinter(p)
    \/ \E pl \in {1, 2} : setSelectedPlate(pl)
    \/ \E tray \in ModalTrays \cup {NoTray} : onManualMappingChange(1, tray)
    \/ \E type \in {"asap", "scheduled"}, time \in TypedTimes :
           setScheduleOptions([scheduleType |-> type, scheduledTime |-> time])
    \/ handleSubmit
    \/ Print_onError
    \/ Print_onSuccess

SpecModal == InitModal /\ [][NextModal]_vars

(* ------------------------------- claims ------------------------------- *)
InFlight == {i \in Slots : net[i] # NoMsg}
Answered == {i \in InFlight : net[i].phase = "resp"}
IssuedTokens == 1..Len(tokens)

\* the challenge carrying token t has reached the UI
Shown(t) == t \in IssuedTokens /\ \A i \in InFlight : net[i].rtoken # t

Held(t) ==
    \/ mvModal # NoModal /\ mvModal.token = t
    \/ tpModal # NoModal /\ tpModal.token = t

\* shown, and neither confirmed nor cancelled
Undecided(t) == Shown(t) /\ sentTok[t] = 0 /\ t \notin cancelledTok

connectedSnapshot == selectedPrinter /\ isConnected(selectedStatus)

EveryControlDisabled ==
    /\ Preset_disabled /\ Bed_disabled /\ Nozzle_disabled
    /\ Speed_disabled
    /\ Fan_disabled
    /\ Light_disabled
    /\ Movement_disabled
    /\ Load_disabled /\ Unload_disabled
    /\ Camera_disabled

\* C1: the request of a first click carries no token; a tokenless request for
\* a dangerous command is answered by a challenge with a freshly issued token
\* and has no device side effect; a dangerous command has a side effect only
\* for a request that carries a token issued for that command and printer.
C1_TokenlessNeverExecutes ==
    \A i \in InFlight :
        LET m == net[i]
        IN  /\ m.origin = "click" => m.token = NoToken
            /\ (m.phase = "resp" /\ m.dangerous /\ m.token = NoToken)
                   => /\ m.result = "challenge"
                      /\ ~m.executed
                      /\ m.rtoken \in Issued(m.printer, m.obs)
            /\ (m.phase = "resp" /\ m.dangerous /\ m.executed)
                   => /\ m.token \in Issued(m.printer, m.obs)
                      /\ m.origin = "confirm"

\* C1 witness: a challenged dangerous command was confirmed and executed
C1_ConfirmedExecuted ==
    \E i \in Answered :
        net[i].dangerous /\ net[i].executed /\ net[i].origin = "confirm"

\* C2: a token is single-use: the client sends each token at most once, the
\* first request carrying it is accepted by the executor, never rejected with
\* InvalidOrExpiredToken.
C2_FirstUseAccepted ==
    /\ \A t \in TokenIds : sentTok[t] <= 1
    /\ \A i \in Answered :
           (net[i].token # NoToken /\ net[i].result # "Unreachable")
               => net[i].result \in {"ok", "ExecutionFailed"}

\* C3: once the user has cancelled a prompt, its token is in no request sent
\* afterwards, and the executor never consumes it: the challenged command has
\* no side effect.
C3_CancelledNeverSent ==
    \A t \in cancelledTok :
        /\ sentTok[t] = 0
        /\ \A i \in InFlight : net[i].token # t
        /\ ~tokens[t].used

\* C3 witness: a prompt was cancelled and the user has clicked a control again
C3_CancelledThenClicked ==
    /\ cancelledTok # {}
    /\ mvModal = NoModal /\ tpModal = NoModal
    /\ \E i \in InFlight : net[i].origin = "click" /\ net[i].phase = "req"

\* C4: two challenges of different command kinds that were both shown and are
\* both neither confirmed nor cancelled are both still held by the UI: the
\* second does not overwrite the first.
C4_ChallengesIndependent ==
    \A t1, t2 \in IssuedTokens :
        (tokens[t1].obs # tokens[t2].obs /\ Undecided(t1) /\ Undecided(t2))
            => Held(t1) /\ Held(t2)

\* C5: every request carrying a token is addressed to the printer, and is for
\* the command, the token was issued for.
C5_TokenKeepsTarget ==
    \A i \in InFlight :
        net[i].token # NoToken
            => /\ net[i].printer = tokens[net[i].token].printer
               /\ net[i].obs = tokens[net[i].token].obs

\* C6: every request, first click or confirmation, was sent while the latest
\* snapshot of its printer had connected = true.
C6_SentOnlyConnected == \A i \in InFlight : net[i].connAtSend

\* C7: while the latest snapshot of the selected printer is missing or has
\* connected = false, every command-issuing control is disabled, and no step
\* sends the request of a control or starts or stops the camera stream with
\* the Start/Stop button (the only request a step can send is the one of a
\* prompt's Confirm button; the stream changes only through Refresh and its
\* restart timer).
C7_DisconnectedDisablesAll ==
    /\ []((selectedPrinter /\ ~isConnected(selectedStatus)) => EveryControlDisabled)
    /\ [][~isConnected(selectedStatus)
             => /\ \A i \in Slots : (net[i] = NoMsg /\ net'[i] # NoMsg)
                                          => net'[i].origin = "confirm"
                /\ streamEnabled' # streamEnabled => timers' # timers]_vars

\* C7 witness: the printer is shown disconnected after commands were sent
C7_DisconnectedAfterCommands ==
    /\ selectedPrinter
    /\ selectedStatus # NoStatus
    /\ ~selectedStatus.connected
    /\ requests > 0
    /\ streamEnabled

\* C8: in an operational state outside IDLE, RUNNING, PAUSE and FINISH every
\* control is disabled, even when connected = true.
C8_UnknownStateDisablesAll ==
    (connectedSnapshot /\ stateOf(selectedStatus) \notin KnownStates)
        => EveryControlDisabled

\* C9: with connected = true the movement and home buttons are enabled in IDLE
\* and FINISH (unless a movement command is pending) and disabled in RUNNING.
C9_MovementFollowsTable ==
    connectedSnapshot
        => /\ (stateOf(selectedStatus) \in {"IDLE", "FINISH"} /\ ~Movement_isLoading)
                  => ~Movement_disabled
           /\ stateOf(selectedStatus) = "RUNNING" => Movement_disabled

\* C10: with connected = true AMS load and unload are enabled in IDLE and
\* FINISH (a tray selected, no AMS command pending) and disabled in RUNNING
\* and in PAUSE.
C10_AmsFollowsTable ==
    (connectedSnapshot /\ AMS_rendered)
        => /\ (stateOf(selectedStatus) \in {"IDLE", "FINISH"} /\ ~AMS_isLoading)
                  => (~Unload_disabled /\ (selectedTray # NoTray => ~Load_disabled))
           /\ stateOf(selectedStatus) \in {"RUNNING", "PAUSE"}
                  => (Load_disabled /\ Unload_disabled)

\* the step puts a request into slot i
Sent(i) == net[i] = NoMsg /\ net'[i] # NoMsg

\* C11: the speed buttons are enabled exactly when connected = true, the state
\* is RUNNING and no speed request is pending; every step that sends a speed
\* request starts in a state with connected = true and state RUNNING.
C11_SpeedOnlyWhileRunning ==
    /\ [](selectedPrinter =>
             (Speed_disabled <=>
                 ~(isConnected(selectedStatus) /\ stateOf(selectedStatus) = "RUNNING"
                   /\ ~isPending("speed"))))
    /\ [][\A i \in Slots : (Sent(i) /\ net'[i].obs = "speed")
             => (isConnected(selectedStatus) /\ stateOf(selectedStatus) = "RUNNING")]_vars

\* C11 witness: a speed request was sent and the printer is now paused
C11_SpeedRequested ==
    /\ \E i \in InFlight : net[i].obs = "speed"
    /\ connectedSnapshot
    /\ stateOf(selectedStatus) = "PAUSE"
    /\ Speed_disabled

\* C12: with connected = true and the state one of IDLE, RUNNING, PAUSE and
\* FINISH, the temperature presets and the fan sliders are enabled, and a bed
\* or nozzle +/- button is disabled only while its own request is pending: the
\* operational state has no influence.
C12_TempFanIgnoreState ==
    (connectedSnapshot /\ stateOf(selectedStatus) \in KnownStates)
        => /\ ~Preset_disabled
           /\ ~Fan_disabled
           /\ Bed_disabled <=> isPending("bed")
           /\ Nozzle_disabled <=> isPending("nozzle")

\* C12 witness: during a print a fan request and a bed request are in flight
C12_UsedWhileRunning ==
    /\ connectedSnapshot
    /\ stateOf(selectedStatus) = "RUNNING"
    /\ \E i \in InFlight : net[i].obs \in FanObservers
    /\ \E i \in InFlight : net[i].obs = "bed"

\* C13: a request that carries a token is for the command the executor
\* challenged when it issued that token, with the same axis, distance or
\* target, and nozzle index; and the step that sends it takes the token from
\* the prompt on display.
C13_ConfirmResendsChallenged ==
    /\ [](\A i \in InFlight :
             net[i].token # NoToken
                 => LET c == tokens[net[i].token]
                    IN  /\ net[i].obs = c.obs
                        /\ net[i].axis = c.axis
                        /\ net[i].value = c.value
                        /\ net[i].nozzle = c.nozzle)
    /\ [][\A i \in Slots : (Sent(i) /\ net'[i].token # NoToken) => Held(net'[i].token)]_vars

\* C13 witness: a challenged move was confirmed after the user had picked
\* another distance
C13_MoveConfirmedAfterDistanceChange ==
    \E i \in InFlight :
        /\ net[i].origin = "confirm"
        /\ net[i].obs = "move"
        /\ net[i].value # moveDistance
        /\ net[i].value # -moveDistance

\* the step hands the response in slot i to the UI
Delivered(i) == net[i] # NoMsg /\ net[i].phase = "resp" /\ net'[i] = NoMsg

HeldIn(mv, tp, t) ==
    \/ mv # NoModal /\ mv.token = t
    \/ tp # NoModal /\ tp.token = t

\* C14: when the response of a failed confirm-step request reaches the UI, the
\* UI holds no prompt with that token, and the panel of the command shows the
\* error.
C14_FailedConfirmResets ==
    [][\A i \in Slots :
          (Delivered(i) /\ net[i].origin = "confirm" /\ ~isSuccess(net[i]))
              => /\ ~HeldIn(mvModal', tpModal', net[i].token)
                 /\ errorShownFor(error', net[i].obs)]_vars

\* C15: after every poll the status of each printer is exactly the snapshot
\* fetched in that poll, and a printer whose fetch failed has no snapshot: if
\* it is the selected printer it counts as disconnected and every control is
\* disabled.
C15_PollReplacesWholesale ==
    /\ \A p \in Printers :
           statuses[p] = IF fetched[p] = FetchFailed THEN NoStatus ELSE fetched[p]
    /\ (selectedPrinter /\ fetched[selectedPrinterId] = FetchFailed)
           => (~isConnected(selectedStatus) /\ EveryControlDisabled)

\* C15 witness: the fetch for the selected printer fails after a poll in which
\* it was connected and a command was sent
C15_FetchFailedAfterSnapshot ==
    /\ selectedPrinter
    /\ fetched[selectedPrinterId] = FetchFailed
    /\ requests > 0

\* C16: when the response of a failed request reaches the UI, the observer
\* that sent it is no longer pending if this was its latest request, the
\* panel of the command shows the error, and the pending state of every other
\* observer is as before.
C16_FailureNotFatal ==
    [][\A i \in Slots :
          (Delivered(i) /\ ~isSuccess(net[i]))
              => /\ cur[net[i].obs] = i => cur'[net[i].obs] = NoSlot
                 /\ errorShownFor(error', net[i].obs)
                 /\ \A o \in Observers \ {net[i].obs} : cur'[o] = cur[o]]_vars

\* the step puts a request on its way to the executor through slot i
Requested(i) ==
    /\ net'[i] # NoMsg
    /\ net'[i].phase = "req"
    /\ net[i] = NoMsg \/ net[i].phase # "req"

\* one click, slider release or Confirm click of the user
UserCommandEvent ==
    \/ handleHome
    \/ \E b \in MoveButtons : handleMove(b[1], b[2] * moveDistance)
    \/ handleDisableMotors
    \/ Movement_handleConfirm
    \/ \E preset \in PRESETS : handlePreset(preset)
    \/ \E delta \in Deltas : adjustTemp("bed", delta, 0)
    \/ \E delta \in Deltas, nozzle \in {0, 1} : adjustTemp("nozzle", delta, nozzle)
    \/ Temperature_handleConfirm
    \/ \E mode \in SPEED_MODES : Speed_onClick(mode)
    \/ \E fan \in FanObservers, v \in FanSpeeds : FanSlider_handleMouseUp(fan, v)
    \/ handleToggle
    \/ handleLoad
    \/ handleUnload

\* C17: every step that puts a request on its way to the executor is one user
\* event (a click, a slider release or a Confirm click); in particular the
\* arrival of a response, failed or not, and a status poll send nothing.
C17_NoAutomaticResend ==
    [][(\E i \in Slots : Requested(i)) => UserCommandEvent]_vars

\* C17 witness: a request has failed, its error is on display, and nothing of
\* that command is in flight
C17_FailedAndIdle ==
    /\ error["light"]
    /\ \A i \in InFlight : net[i].obs # "light"
    /\ ~Light_disabled

\* C18: whenever the selected printer reconnects (connected goes from false to
\* true) the locally tracked light and fan values are back at their defaults:
\* light on, part 100, aux 0, chamber 0.
C18_ResetOnReconnect ==
    [][(/\ selectedPrinter
        /\ selectedPrinterId' = selectedPrinterId
        /\ ~isConnected(selectedStatus)
        /\ isConnected(statuses'[selectedPrinterId]))
          => /\ isOn' = TRUE
             /\ fanValues' = [part |-> 100, aux |-> 0, chamber |-> 0]]_vars

\* the step is a submit of the PrintModal
Submits == submitted = NoData /\ submitted' # NoData

\* C19: every manual slot override that is submitted was entered (or, in the
\* edit mode, loaded from the queue item) while the printer and plate that are
\* submitted with it were selected.
C19_OverridesOfSelection ==
    [][(Submits /\ submitted'.printer_id # NoPrinter) =>
          \A s \in ModalSlots :
              submitted'.manualMappings[s] # NoTray
                  => enteredFor[s] = <<submitted'.printer_id, submitted'.plate_id>>]_vars

\* C20: saving a queue item that is scheduled for a real time, without a change
\* to the schedule options, submits a scheduled_time of the same minute as the
\* item's scheduled_time, in every time zone.
C20_ScheduleRoundTrip ==
    [][(/\ Submits
        /\ Print_mode = "edit-queue-item"
        /\ queueItem.scheduled_time # NoTime
        /\ ~queueItem.manual_start
        /\ ~scheduleTouched)
          => /\ submitted'.scheduled_time # NoTime
             /\ DateParse(submitted'.scheduled_time, tzOffset) \div 60
                    = DateParse(queueItem.scheduled_time, tzOffset) \div 60]_vars

\* C21: in the reprint and add-to-queue modes a selected printer is always one
\* of the printers with is_active = true, also when the selection was made
\* by the auto-select effect.
C21_SelectedIsActive ==
    (Print_mode \in {"reprint", "add-to-queue"} /\ Print_selectedPrinter # NoPrinter)
        => \E k \in activePrinters(printers) : printers[k].id = Print_selectedPrinter

\* C22: camera retry makes progress: when the restart timer started by Retry
\* (or Refresh) in the error state fires, the stream image element is mounted
\* again, so that a new load attempt occurs.
C22_RetryRemountsImage ==
    [][(timers' < timers /\ Camera_error) => imgState' = "loading"]_vars

\* C23: fan tracking under overlapping requests: when the last outstanding
\* response for a fan arrives, all of them successful, the tracked value of
\* that fan is the value of the most recently issued request; so the late
\* response of a superseded request, arriving after the latest request has
\* succeeded, leaves the tracked value as it is.
C23_TrackedIsLatest ==
    [][\A i \in Slots :
          (/\ Delivered(i)
           /\ net[i].obs \in FanObservers
           /\ isSuccess(net[i])
           /\ cur[net[i].obs] # i
           /\ ~error[net[i].obs]
           /\ \A j \in Slots \ {i} : net[j] = NoMsg \/ net[j].obs # net[i].obs)
              => fanValues'[net[i].obs] = fanValues[net[i].obs]]_vars

\* C24: per-printer isolation of assumed state: the light state and the fan
\* values shown while a printer is selected are the ones that the successful
\* light and fan commands sent to that printer have set.
C24_ShownIsOwn ==
    selectedPrinter
        => /\ isOn = assumed[selectedPrinterId].isOn
           /\ fanValues = assumed[selectedPrinterId].fanValues

\* C25: an AMS load request is sent only for a tray that exists and is not
\* empty in the latest snapshot of the selected printer at the time of the
\* click.
C25_LoadsPresentTray ==
    [][\A i \in Slots :
          (Sent(i) /\ net'[i].obs = "load")
              => \E u \in 1..Len(amsUnits) :
                     \E t \in 1..Len(amsUnits[u].trays) :
                         /\ globalTrayId(amsUnits[u], amsUnits[u].trays[t]) = net'[i].value
                         /\ ~isEmpty(amsUnits[u].trays[t])]_vars

\* the target a +/- click has to send: within [0, hi], and the reported
\* target plus the delta whenever that sum lies in the range
ClampedTo(value, reported, delta, hi) ==
    /\ value \in 0..hi
    /\ (reported + delta \in 0..hi) => value = reported + delta

\* C26: every target sent by the +/- buttons is clamped: the bed target lies
\* in [0, 120] and the nozzle target in [0, 300], and it is the reported
\* target of the same heater (bed, nozzle 1, nozzle 2) plus the delta whenever
\* that sum is within the range.
C26_TargetsClamped ==
    [][\A delta \in Deltas, i \in Slots :
          /\ (adjustTemp("bed", delta, 0) /\ Sent(i))
                 => ClampedTo(net'[i].value, temps(selectedStatus).bed_target, delta, 120)
          /\ (adjustTemp("nozzle", delta, 0) /\ Sent(i))
                 => ClampedTo(net'[i].value, temps(selectedStatus).nozzle_target, delta, 300)
          /\ (adjustTemp("nozzle", delta, 1) /\ Sent(i))
                 => ClampedTo(net'[i].value, temps(selectedStatus).nozzle_2_target, delta,
                              300)]_vars

\* C26 witness: the second nozzle's + button was clicked at a reported target
\* of 297 while the first nozzle reports 2, and its request is on the way
C26_SecondNozzleAtLimit ==
    /\ selectedStatus # NoStatus
    /\ selectedStatus.nozzle_target = 2
    /\ selectedStatus.nozzle_2_target = 297
    /\ \E i \in Slots : /\ net[i] # NoMsg
                        /\ net[i].phase = "req"
                        /\ net[i].origin = "click"
                        /\ net[i].obs = "nozzle"
                        /\ net[i].nozzle = 1
                        /\ net[i].value = 300

====
